---- MODULE Spec2Model ----
(***************************************************************************)
(* A model of InsightGPT's retrieval-augmented question-answering core:    *)
(* DocumentProcessor.chunk_text, EmbeddingStore, OpenAIHelper and the      *)
(* Streamlit session handlers of app.py.                                   *)
(*                                                                         *)
(* Python strings are sequences of one-character strings (longer literals  *)
(* of the source, such as the context separator, are kept as one element). *)
(* An Optional value is None or Some(v).                                   *)
(***************************************************************************)
EXTENDS Integers, Sequences, FiniteSets, TLC

VARIABLES
    \* DocumentProcessor.chunk_text: the call's arguments, its locals, its position
    call, chunk_size, overlap, start, chunks, pc, iters,
    \* one EmbeddingStore object: its fields chunks and index
    store,
    \* st.session_state (app.py:58-77)
    document_text, document_stats, summary, insights, keywords, embedding_store,
    chat_history, processed,
    \* whether the tokenizer's encoding is loaded in this process (openai_helper.py:28-32)
    encoding_loaded,
    \* what the last operation returned, reported and requested of the providers
    ev

chunker_vars == <<call, chunk_size, overlap, start, chunks, pc, iters>>

session_vars == <<document_text, document_stats, summary, insights, keywords,
                  embedding_store, chat_history, processed, encoding_loaded>>

vars == <<chunker_vars, store, session_vars, ev>>

---------------------------------------------------------------------------
\* Python values

None == [none |-> TRUE]

Some(v) == [none |-> FALSE, val |-> v]

\* `x or default` on an Optional[int]: None and 0 are both falsy
OrDefault(x, default) == IF x.none \/ x.val = 0 THEN default ELSE x.val

Min(a, b) == IF a < b THEN a ELSE b

Max(a, b) == IF a > b THEN a ELSE b

\* a slice bound as Python normalises it: negative counts from the end, then clamped
SliceIndex(i, n) == IF i < 0 THEN Max(i + n, 0) ELSE Min(i, n)

\* s[a:b]
Slice(s, a, b) == SubSeq(s, SliceIndex(a, Len(s)) + 1, SliceIndex(b, Len(s)))

\* s.rfind(p): the highest 0-based offset where p occurs in s, or -1
RFind(s, p) ==
    LET at == {i \in 0..(Len(s) - Len(p)) : SubSeq(s, i + 1, i + Len(p)) = p}
    IN IF at = {} THEN -1 ELSE CHOOSE i \in at : \A j \in at : j <= i

Whitespace == {" ", "\n", "\t", "\r"}

\* s.strip()
Strip(s) ==
    LET solid == {i \in 1..Len(s) : s[i] \notin Whitespace}
    IN IF solid = {} THEN <<>>
       ELSE SubSeq(s, CHOOSE i \in solid : \A j \in solid : i <= j,
                      CHOOSE i \in solid : \A j \in solid : j <= i)

\* sep.join(parts)
RECURSIVE Join(_, _)
Join(parts, sep) ==
    IF parts = <<>> THEN <<>>
    ELSE IF Len(parts) = 1 THEN parts[1]
    ELSE parts[1] \o sep \o Join(Tail(parts), sep)

\* a provider's reply to one request: it raises, or returns a content (which may be None)
Raises == [raises |-> TRUE, content |-> None]

Returns(content) == [raises |-> FALSE, content |-> content]

NoResponse == [raises |-> FALSE, content |-> None, absent |-> TRUE]

\* the observation of an operation: its arguments (question, context, top_k), what
\* it returned (ok, results, answer), the st.error messages it showed, the provider
\* calls it made and which of them raised, the messages it sent and the reply it
\* got, and the chat history it started from
\* what the sidebar holds when a Process button is pressed: the input method, the
\* file in the uploader or the text in the text area, and whether the API key is set
NoFile == [extension |-> "", size |-> 0, readable |-> FALSE, text |-> <<>>]

NoInput == [method |-> "none", api_key_valid |-> FALSE, file |-> NoFile, text |-> <<>>]

NoEvent ==
    [op |-> "none", outcome |-> "", question |-> <<>>, context |-> <<>>,
     top_k |-> None, ok |-> FALSE, results |-> <<>>, errors |-> <<>>, answer |-> None,
     embed_calls |-> 0, gen_calls |-> 0, raised |-> {}, sent |-> <<>>,
     response |-> NoResponse, batch_failed |-> FALSE, history_before |-> <<>>,
     input |-> NoInput]

\* the provider requests among `made` whose reply was to raise
Raised(made, raising) == made \cap raising

---------------------------------------------------------------------------
\* config.py

CHUNK_SIZE == 1000

CHUNK_OVERLAP == 200

TOP_K_RESULTS == 3

---------------------------------------------------------------------------
\* DocumentProcessor.chunk_text (document_processor.py:103-143)

\* the sentence-ending markers, in the order the loop tries them
PUNCT == << <<".", " ">>, <<".", "\n">>, <<"!", " ">>, <<"!", "\n">>,
            <<"?", " ">>, <<"?", "\n">> >>

\* lines 126-135: where the window that starts at s is cut
WindowEnd(t, s, size) ==
    LET end == s + size
        window == Slice(t, s, end)
        \* the markers whose last occurrence lies past half the chunk size
        found == {k \in 1..Len(PUNCT) : 2 * RFind(window, PUNCT[k]) > size}
    IN IF end < Len(t) /\ found # {}
       THEN LET k == CHOOSE k \in found : \A j \in found : k <= j
            IN s + RFind(window, PUNCT[k]) + Len(PUNCT[k])
       ELSE end

\* lines 137-139: the chunk the window adds, if any
Appended(t, s, end) ==
    LET chunk == Strip(Slice(t, s, end))
    IN IF chunk # <<>> THEN <<chunk>> ELSE <<>>

\* line 141
NextStart(end, ov) == end - ov

---------------------------------------------------------------------------
\* EmbeddingStore (embeddings.py:13-165)

batch_size == 10

\* the vector the embedding provider returns for a text (embeddings.py:95-110);
\* an index is the sequence of the vectors added to it
Embedding(t) == [of |-> t]

\* __init__, lines 27-28
NewStore == [chunks |-> <<>>, index |-> None]

\* lines 155-157
is_ready(s) == ~s.index.none /\ Len(s.chunks) > 0

\* lines 57-73: the batches from offset i on; the provider raises on batch
\* failing_batch (0: on none)
RECURSIVE EmbedBatches(_, _, _, _)
EmbedBatches(text_chunks, i, embeddings, failing_batch) ==
    IF i >= Len(text_chunks)
    THEN [failed |-> FALSE, embeddings |-> embeddings, calls |-> (i \div batch_size)]
    ELSE LET batch == Slice(text_chunks, i, i + batch_size)
             current_batch == (i \div batch_size) + 1
         IN IF failing_batch = current_batch
            THEN [failed |-> TRUE, embeddings |-> embeddings, calls |-> current_batch]
            ELSE EmbedBatches(text_chunks, i + batch_size,
                              embeddings \o [j \in 1..Len(batch) |-> Embedding(batch[j])],
                              failing_batch)

\* lines 31-93: the store afterwards, the value returned, what was shown and requested
create_embeddings(s, text_chunks, failing_batch) ==
    IF text_chunks = <<>>
    THEN [store |-> s, ok |-> FALSE, embed_calls |-> 0, batch_failed |-> FALSE,
          errors |-> <<"No text chunks provided for embedding">>]
    ELSE LET assigned == [s EXCEPT !.chunks = text_chunks]
             run == EmbedBatches(text_chunks, 0, <<>>, failing_batch)
         IN IF run.failed
            THEN [store |-> assigned, ok |-> FALSE, embed_calls |-> run.calls,
                  batch_failed |-> TRUE,
                  errors |-> <<"Error generating embeddings for batch">>]
            ELSE [store |-> [assigned EXCEPT !.index = Some(run.embeddings)],
                  ok |-> TRUE, embed_calls |-> run.calls, batch_failed |-> FALSE,
                  errors |-> <<>>]

NotReady_chunks_only(s) == s.chunks = <<>>

\* line 124
NotReady(s) == s.index.none \/ s.chunks = <<>>

\* lines 128-129
ClampTopK(top_k, s) == Min(OrDefault(top_k, TOP_K_RESULTS), Len(s.chunks))

\* index.search (line 137): the labels of the k nearest of ntotal vectors, best
\* first, padded with -1. The order is the provider's: it is drawn from the
\* rotations of the index order and of its reverse.
Labels(ntotal, k, r, rev) ==
    [j \in 1..k |->
        IF j > ntotal THEN -1
        ELSE IF rev THEN (r + (ntotal - 1) * (j - 1)) % ntotal
        ELSE (r + j - 1) % ntotal]

\* the similarity of the j-th nearest vector: decreasing in j; the padding's is
\* the least float
Distance(ntotal, j) == IF j > ntotal THEN -1000 ELSE 0 - j

\* chunks[idx] for a list index that may be negative
Item(list, idx) == IF idx < 0 THEN list[Len(list) + idx + 1] ELSE list[idx + 1]

\* lines 140-143
RECURSIVE Results(_, _, _, _)
Results(s, labels, ntotal, j) ==
    IF j > Len(labels) THEN <<>>
    ELSE (IF labels[j] < Len(s.chunks)
          THEN << [chunk |-> Item(s.chunks, labels[j]), score |-> Distance(ntotal, j)] >>
          ELSE <<>>) \o Results(s, labels, ntotal, j + 1)

\* lines 112-149. embed_ok: the provider embeds the query; (r, rev): its ranking
search(s, query, top_k, embed_ok, r, rev) ==
    IF NotReady(s)
    THEN [results |-> <<>>, embed_calls |-> 0,
          errors |-> <<"No embeddings available. Please process a document first.">>]
    ELSE IF ~embed_ok \/ s.index.none
    THEN [results |-> <<>>, embed_calls |-> 1,
          errors |-> <<"Error searching embeddings">>]
    ELSE LET ntotal == Len(s.index.val)
             labels == Labels(ntotal, ClampTopK(top_k, s), r % Max(ntotal, 1), rev)
         IN [results |-> Results(s, labels, ntotal, 1), embed_calls |-> 1,
             errors |-> <<>>]

---------------------------------------------------------------------------
\* OpenAIHelper (openai_helper.py)

Completion_blank_on_failure(resp) ==
    IF resp.raises \/ resp.content.none THEN Some(<<>>) ELSE Some(Strip(resp.content.val))

\* response.choices[0].message.content.strip() inside the try of each method: None
\* when the provider raises or the content is None
Completion(resp) ==
    IF resp.raises \/ resp.content.none THEN None ELSE Some(Strip(resp.content.val))

\* s.split(sep), sep non-empty
RECURSIVE Split(_, _)
Split(s, sep) ==
    LET at == {i \in 1..(Len(s) - Len(sep) + 1) : SubSeq(s, i, i + Len(sep) - 1) = sep}
    IN IF at = {} THEN <<s>>
       ELSE LET i == CHOOSE i \in at : \A j \in at : i <= j
            IN <<SubSeq(s, 1, i - 1)>> \o Split(SubSeq(s, i + Len(sep), Len(s)), sep)

\* lines 38-87
generate_summary(t, resp) ==
    LET r == Completion(resp)
    IN [ret |-> r, gen_calls |-> 1,
        errors |-> IF r.none THEN <<"Error generating summary">> ELSE <<>>]

\* lines 156-180, over the lines of the response
RECURSIVE ParseLines(_, _, _)
ParseLines(lines, current_section, acc) ==
    IF lines = <<>> THEN acc
    ELSE LET line == Strip(lines[1])
             has(h) == \E i \in 1..Len(line) : line[i] = h
             item == Strip(Slice(line, 2, Len(line)))
         IN IF has("KEY ENTITIES:") THEN ParseLines(Tail(lines), "entities", acc)
            ELSE IF has("MAIN THEMES:") THEN ParseLines(Tail(lines), "themes", acc)
            ELSE IF has("ACTION ITEMS:") THEN ParseLines(Tail(lines), "action_items", acc)
            ELSE IF /\ Len(line) >= 2 /\ line[1] = "-" /\ line[2] = " "
                    /\ current_section # ""
                    /\ item # <<>>
                    /\ item \notin {<<"none identified">>, <<"None identified">>}
                 THEN ParseLines(Tail(lines), current_section,
                                 [acc EXCEPT ![current_section] = @ \o <<item>>])
            ELSE ParseLines(Tail(lines), current_section, acc)

_parse_insights(content) ==
    ParseLines(Split(content, <<"\n">>), "",
               [entities |-> <<>>, themes |-> <<>>, action_items |-> <<>>])

\* lines 89-154
extract_insights(t, resp) ==
    LET r == Completion(resp)
    IN [ret |-> IF r.none THEN None ELSE Some(_parse_insights(r.val)), gen_calls |-> 1,
        errors |-> IF r.none THEN <<"Error extracting insights">> ELSE <<>>]

RECURSIVE NonBlank(_)
NonBlank(lines) ==
    IF lines = <<>> THEN <<>>
    ELSE (IF Strip(lines[1]) # <<>> THEN <<Strip(lines[1])>> ELSE <<>>)
         \o NonBlank(Tail(lines))

\* lines 239-282
generate_keywords(t, resp, max_keywords) ==
    LET r == Completion(resp)
    IN [ret |-> IF r.none THEN None
                ELSE Some(Slice(NonBlank(Split(r.val, <<"\n">>)), 0, max_keywords)),
        gen_calls |-> 1,
        errors |-> IF r.none THEN <<"Error generating keywords">> ELSE <<>>]

\* line 201-210
SYSTEM_INSTRUCTION == <<"You are an intelligent assistant helping users understand documents.">>

\* line 197
SEPARATOR == <<"\n\n---\n\n">>

HistoryWindow_all(history) == history

\* lines 214-216
HistoryWindow(history) ==
    IF history # <<>> THEN Slice(history, -4, Len(history)) ELSE <<>>

\* lines 219-222
UserMessage(context, question) ==
    <<"Context from document:\n">> \o context \o <<"\n\nQuestion: ">> \o question

\* lines 197-224
Messages(question, context_chunks, history) ==
    << [role |-> "system", content |-> SYSTEM_INSTRUCTION] >>
    \o HistoryWindow(history)
    \o << [role |-> "user",
           content |-> UserMessage(Join(context_chunks, SEPARATOR), question)] >>

\* lines 182-237: one request to the generation provider, None when it fails
answer_question(question, context_chunks, history, resp) ==
    LET r == Completion(resp)
    IN [ret |-> r, gen_calls |-> 1,
        sent |-> Messages(question, context_chunks, history),
        errors |-> IF r.none THEN <<"Error answering question">> ELSE <<>>]

\* the truth value of an Optional[str]
Truthy(x) == ~x.none /\ x.val # <<>>

---------------------------------------------------------------------------
\* DocumentProcessor.chunk_text with its loop run to the end (the loop of
\* ChunkIter below, for callers that use the result)
RECURSIVE ChunkLoop(_, _, _, _, _)
ChunkLoop(t, size, ov, s, acc) ==
    IF s >= Len(t) THEN acc
    ELSE LET end == WindowEnd(t, s, size)
         IN ChunkLoop(t, size, ov, NextStart(end, ov), acc \o Appended(t, s, end))

chunk_text(t, size_arg, overlap_arg) ==
    LET size == OrDefault(size_arg, CHUNK_SIZE)
        ov == OrDefault(overlap_arg, CHUNK_OVERLAP)
    IN IF Len(t) <= size THEN <<t>> ELSE ChunkLoop(t, size, ov, 0, <<>>)

\* DocumentProcessor.get_text_stats (document_processor.py:145-164)
CountNonBlank(parts) == Cardinality({i \in 1..Len(parts) : Strip(parts[i]) # <<>>})

get_text_stats(t) ==
    [characters |-> Len(t),
     words |-> Cardinality({i \in 1..Len(t) :
                   t[i] \notin Whitespace /\ (i = 1 \/ t[i - 1] \in Whitespace)}),
     sentences |-> CountNonBlank(Split([i \in 1..Len(t) |->
                       IF t[i] \in {"!", "?"} THEN "." ELSE t[i]], <<".">>)),
     paragraphs |-> CountNonBlank(Split(t, <<"\n", "\n">>))]

---------------------------------------------------------------------------
\* Ingestion: validate_text_input and DocumentProcessor.process_uploaded_file
\* (document_processor.py), and the sidebar that calls them (app.py)

MAX_FILE_SIZE_MB == 10

\* the minimum of validate_text_input, line 180
MinTextLength == 50

Megabyte == 1024 * 1024

\* s.lower(), for the extensions that occur
Lower(x) ==
    CASE x = "PDF" -> "pdf"
      [] x = "DOCX" -> "docx"
      [] x = "DOC" -> "doc"
      [] x = "TXT" -> "txt"
      [] OTHER -> x

validate_text_input_unstripped(text) ==
    IF text = <<>> \/ Strip(text) = <<>>
    THEN [is_valid |-> FALSE, error_msg |-> <<"Text is empty">>]
    ELSE IF Len(text) < MinTextLength
    THEN [is_valid |-> FALSE,
          error_msg |-> <<"Text is too short (minimum 50 characters)">>]
    ELSE [is_valid |-> TRUE, error_msg |-> <<>>]

\* validate_text_input, lines 167-183
validate_text_input(text) ==
    IF text = <<>> \/ Strip(text) = <<>>
    THEN [is_valid |-> FALSE, error_msg |-> <<"Text is empty">>]
    ELSE IF Len(Strip(text)) < MinTextLength
    THEN [is_valid |-> FALSE,
          error_msg |-> <<"Text is too short (minimum 50 characters)">>]
    ELSE [is_valid |-> TRUE, error_msg |-> <<>>]

\* _extract_from_pdf, _extract_from_docx, _extract_from_txt, lines 58-101: each
\* returns the file's text stripped, or raises when the file cannot be read
Extract(file) ==
    IF file.readable
    THEN [raises |-> FALSE, text |-> Strip(file.text)]
    ELSE [raises |-> TRUE, text |-> <<>>]

\* process_uploaded_file, lines 19-56. size / (1024 * 1024) > MAX_FILE_SIZE_MB is
\* the comparison of line 34 with both sides multiplied by 1024 * 1024.
process_uploaded_file(file) ==
    LET file_type == Lower(file.extension)
        refused(msg) == [text |-> <<>>, success |-> FALSE, errors |-> <<msg>>]
    IN IF file.size > MAX_FILE_SIZE_MB * Megabyte
       THEN refused("File size exceeds maximum allowed size")
       ELSE IF file_type \notin {"pdf", "docx", "doc", "txt"}
       THEN refused("Unsupported file type")
       ELSE IF Extract(file).raises
       THEN refused("Error processing file")
       ELSE IF Strip(Extract(file).text) = <<>>
       THEN refused("No text could be extracted from the file.")
       ELSE [text |-> Extract(file).text, success |-> TRUE, errors |-> <<>>]

\* st.file_uploader(type=['pdf', 'docx', 'txt']), app.py lines 135-139: the widget
\* holds a file only when its extension is one of the listed types
file_uploader(file) ==
    IF Lower(file.extension) \in {"pdf", "docx", "txt"} THEN Some(file) ELSE None

\* render_sidebar, lines 132-165, with the Process button pressed where it is
\* shown: the local document_text and the errors shown
SidebarInput(input) ==
    LET nothing == [document_text |-> None, errors |-> <<>>, shown |-> FALSE]
    IN IF input.method = "upload"
       THEN IF ~file_uploader(input.file).none /\ input.api_key_valid
            THEN LET r == process_uploaded_file(input.file)
                 IN [document_text |-> IF r.success THEN Some(r.text) ELSE None,
                     errors |-> r.errors, shown |-> TRUE]
            ELSE nothing
       ELSE IF input.text # <<>> /\ input.api_key_valid
            THEN LET v == validate_text_input(input.text)
                 IN [document_text |-> IF v.is_valid THEN Some(input.text) ELSE None,
                     errors |-> IF v.is_valid THEN <<>> ELSE <<v.error_msg[1]>>,
                     shown |-> TRUE]
            ELSE nothing

---------------------------------------------------------------------------
\* app.py: the session handlers

\* initialize_session_state, lines 58-75
SessionIdle ==
    /\ document_text = None
    /\ document_stats = None
    /\ summary = None
    /\ insights = None
    /\ keywords = None
    /\ embedding_store = None
    /\ chat_history = <<>>
    /\ processed = FALSE
    /\ encoding_loaded = FALSE

StoreIdle == store = NewStore

\* process_document, lines 226-227
StoreAfterBuild(old, built, ok) == IF ok THEN Some(built) ELSE old

HistoryAfterProcessing_kept(history) == history

\* process_document, line 231
HistoryAfterProcessing(history) == <<>>

\* render_qa_tab, line 354
StoreNotReady(es) == es.none \/ ~is_ready(es.val)

Grounded_always(search_results) == TRUE

\* render_qa_tab, line 402
Grounded(search_results) == search_results # <<>>

\* render_qa_tab, line 404
RelevantChunks(search_results) ==
    [i \in 1..Len(search_results) |-> search_results[i].chunk]

HistoryAfterAnswer_always(history, question, answer) ==
    history \o << [role |-> "user", content |-> question],
                  [role |-> "assistant",
                   content |-> IF answer.none THEN <<>> ELSE answer.val] >>

HistoryAfterAnswer_answer_only(history, question, answer) ==
    IF Truthy(answer)
    THEN history \o << [role |-> "assistant", content |-> answer.val] >>
    ELSE history

\* render_qa_tab, lines 418-427
HistoryAfterAnswer(history, question, answer) ==
    IF Truthy(answer)
    THEN history \o << [role |-> "user", content |-> question],
                       [role |-> "assistant", content |-> answer.val] >>
    ELSE history

\* render_qa_tab, lines 397-432: the Ask button with a question, on a ready store
Ask(es, history, question, embed_ok, r, rev, resp) ==
    LET found == search(es, question, Some(3), embed_ok, r, rev)
    IN IF Grounded(found.results)
       THEN LET a == answer_question(question, RelevantChunks(found.results),
                                     history, resp)
            IN [outcome |-> IF Truthy(a.ret) THEN "answered" ELSE "no_answer",
                chat_history |-> HistoryAfterAnswer(history, question, a.ret),
                results |-> found.results, answer |-> a.ret,
                embed_calls |-> found.embed_calls, gen_calls |-> a.gen_calls,
                sent |-> a.sent, response |-> resp,
                errors |-> found.errors \o a.errors]
       ELSE [outcome |-> "no_results", chat_history |-> history,
             results |-> <<>>, answer |-> None,
             embed_calls |-> found.embed_calls, gen_calls |-> 0, sent |-> <<>>,
             response |-> NoResponse,
             errors |-> found.errors
                 \o <<"Could not find relevant information in the document.">>]

\* the chunker at rest
ChunkerIdle ==
    /\ call = [text |-> <<>>, chunk_size |-> None, overlap |-> None]
    /\ chunk_size = 0
    /\ overlap = 0
    /\ start = 0
    /\ chunks = <<>>
    /\ pc = "idle"
    /\ iters = 0

\* st.session_state as one value
Session ==
    [document_text |-> document_text, document_stats |-> document_stats,
     summary |-> summary, insights |-> insights, keywords |-> keywords,
     embedding_store |-> embedding_store, chat_history |-> chat_history,
     processed |-> processed]

\* process_document, lines 193-235. encoding_ok: OpenAIHelper's constructor loads
\* the tokenizer's encoding (openai_helper.py:28-32); when that raises, the handler
\* of lines 233-235 runs. Every provider call below catches its own failure.
process_document(ss, t, encoding_ok, rs, ri, rk, failing_batch) ==
    LET stored == [ss EXCEPT !.document_text = Some(t),
                             !.document_stats = Some(get_text_stats(t))]
    IN IF ~encoding_ok
       THEN [state |-> [stored EXCEPT !.processed = FALSE], outcome |-> "error",
             ok |-> FALSE, batch_failed |-> FALSE, embed_calls |-> 0, gen_calls |-> 0,
             errors |-> <<"Error processing document">>]
       ELSE LET s == generate_summary(t, rs)
                i == extract_insights(t, ri)
                k == generate_keywords(t, rk, 10)
                build == create_embeddings(NewStore, chunk_text(t, None, None),
                                           failing_batch)
            IN [state |-> [stored EXCEPT
                               !.summary = s.ret,
                               !.insights = i.ret,
                               !.keywords = k.ret,
                               !.embedding_store =
                                   StoreAfterBuild(ss.embedding_store, build.store,
                                                   build.ok),
                               !.processed = TRUE,
                               !.chat_history = HistoryAfterProcessing(ss.chat_history)],
                outcome |-> "processed", ok |-> build.ok,
                batch_failed |-> build.batch_failed,
                embed_calls |-> build.embed_calls,
                gen_calls |-> s.gen_calls + i.gen_calls + k.gen_calls,
                errors |-> s.errors \o i.errors \o k.errors \o build.errors]

\* render_qa_tab, lines 345-432, with the Ask button pressed
render_qa_tab(ss, question, embed_ok, r, rev, resp) ==
    LET quiet == [outcome |-> "idle", chat_history |-> ss.chat_history,
                  results |-> <<>>, answer |-> None, embed_calls |-> 0,
                  gen_calls |-> 0, sent |-> <<>>, response |-> NoResponse,
                  errors |-> <<>>]
    IN IF ~ss.processed
       THEN [quiet EXCEPT !.outcome = "get_started"]
       ELSE IF StoreNotReady(ss.embedding_store)
       THEN [quiet EXCEPT !.outcome = "not_ready",
                          !.errors = <<"Embedding store not ready. Please reprocess the document.">>]
       ELSE IF question # <<>>
       THEN Ask(ss.embedding_store.val, ss.chat_history, question, embed_ok, r, rev, resp)
       ELSE quiet

---------------------------------------------------------------------------
\* The session: any sequence of the user's actions (app.py)

MaxHistory == 6

Docs == { <<"A", ".", " ", "a">>, <<"B">> }

Questions == { <<>>, <<"q", "1">>, <<"q", "2">> }

SummaryResponses == { Raises, Returns(Some(<<" ", "S", "\n">>)) }

InsightResponses ==
    { Raises,
      Returns(Some(<<"KEY ENTITIES:", "\n", "-", " ", "E", "\n",
                     "MAIN THEMES:", "\n", "-", " ", "None identified", "\n",
                     "ACTION ITEMS:", "\n", " ", "-", " ", "T", " ">>)) }

KeywordResponses == { Raises, Returns(Some(<<"k", "\n", " ", "\n", " ", "w">>)) }

\* what the generation provider may do with a question: raise, return no content,
\* return blank content, return an answer
GenResponses ==
    { Raises, Returns(None), Returns(Some(<<" ">>)), Returns(Some(<<" ", "a", "\n">>)) }

SessionInit ==
    /\ SessionIdle
    /\ StoreIdle
    /\ ChunkerIdle
    /\ ev = NoEvent

ProcessDocument ==
    \E t \in Docs, encoding_ok \in BOOLEAN, rs \in SummaryResponses,
       ri \in InsightResponses, rk \in KeywordResponses, failing_batch \in 0..1 :
        \* a loaded encoding stays loaded for the life of the process
        /\ encoding_loaded => encoding_ok
        /\ \E p \in {process_document(Session, t, encoding_ok, rs, ri, rk, failing_batch)} :
              /\ document_text' = p.state.document_text
              /\ document_stats' = p.state.document_stats
              /\ summary' = p.state.summary
              /\ insights' = p.state.insights
              /\ keywords' = p.state.keywords
              /\ embedding_store' = p.state.embedding_store
              /\ chat_history' = p.state.chat_history
              /\ processed' = p.state.processed
              /\ ev' = [NoEvent EXCEPT !.op = "process_document",
                                       !.outcome = p.outcome, !.ok = p.ok,
                                       !.batch_failed = p.batch_failed,
                                       !.embed_calls = p.embed_calls,
                                       !.gen_calls = p.gen_calls,
                                       !.raised = Raised(
                                           (IF p.gen_calls > 0
                                            THEN {"summary", "insights", "keywords"}
                                            ELSE {})
                                           \cup (IF p.embed_calls > 0
                                                 THEN {"embedding"} ELSE {}),
                                           (IF rs.raises THEN {"summary"} ELSE {})
                                           \cup (IF ri.raises THEN {"insights"} ELSE {})
                                           \cup (IF rk.raises THEN {"keywords"} ELSE {})
                                           \cup (IF failing_batch \in 1..p.embed_calls
                                                 THEN {"embedding"} ELSE {})),
                                       !.errors = p.errors,
                                       !.history_before = chat_history]
        /\ encoding_loaded' = (encoding_loaded \/ encoding_ok)
        /\ UNCHANGED <<chunker_vars, store>>

AskQuestion ==
    \E question \in Questions, embed_ok \in BOOLEAN, rev \in BOOLEAN,
       resp \in GenResponses :
        /\ Len(chat_history) < MaxHistory
        /\ \E q \in {render_qa_tab(Session, question, embed_ok, 0, rev, resp)} :
              /\ chat_history' = q.chat_history
              /\ ev' = [NoEvent EXCEPT !.op = "ask", !.outcome = q.outcome,
                                       !.question = question,
                                       !.response = q.response,
                                       !.history_before = chat_history,
                                       !.results = q.results, !.answer = q.answer,
                                       !.embed_calls = q.embed_calls,
                                       !.gen_calls = q.gen_calls, !.sent = q.sent,
                                       !.raised = Raised(
                                           (IF q.embed_calls > 0
                                            THEN {"query_embedding"} ELSE {})
                                           \cup (IF q.gen_calls > 0
                                                 THEN {"answer"} ELSE {}),
                                           (IF embed_ok THEN {} ELSE {"query_embedding"})
                                           \cup (IF resp.raises THEN {"answer"} ELSE {})),
                                       !.errors = q.errors]
        /\ UNCHANGED <<document_text, document_stats, summary, insights, keywords,
                       embedding_store, processed, encoding_loaded, chunker_vars, store>>

\* render_qa_tab, lines 434-438
ClearChatHistory ==
    /\ processed
    /\ ~StoreNotReady(embedding_store)
    /\ chat_history # <<>>
    /\ chat_history' = <<>>
    /\ ev' = [NoEvent EXCEPT !.op = "clear_chat", !.history_before = chat_history]
    /\ UNCHANGED <<document_text, document_stats, summary, insights, keywords,
                   embedding_store, processed, encoding_loaded, chunker_vars, store>>

\* render_sidebar, lines 174-180
ClearAll ==
    /\ processed
    /\ document_text' = None
    /\ document_stats' = None
    /\ summary' = None
    /\ insights' = None
    /\ keywords' = None
    /\ embedding_store' = None
    /\ chat_history' = <<>>
    /\ processed' = FALSE
    /\ ev' = [NoEvent EXCEPT !.op = "clear_all", !.history_before = chat_history]
    /\ UNCHANGED <<encoding_loaded, chunker_vars, store>>

Next == ProcessDocument \/ AskQuestion \/ ClearChatHistory \/ ClearAll

Spec == SessionInit /\ [][Next]_vars

---------------------------------------------------------------------------
\* The session with its documents submitted through the sidebar (app.py 132-169)

Repeat(c, n) == [i \in 1..n |-> c]

PastedTexts ==
    { <<>>,
      <<" ">>,
      Repeat("x", MinTextLength - 1),
      Repeat("x", MinTextLength),
      <<" ">> \o Repeat("x", MinTextLength - 1) \o <<"\n">> }

Files ==
    { [extension |-> "txt", size |-> MAX_FILE_SIZE_MB * Megabyte, readable |-> TRUE,
       text |-> <<" ", "B", "\n">>],
      [extension |-> "PDF", size |-> MAX_FILE_SIZE_MB * Megabyte + 1, readable |-> TRUE,
       text |-> <<"B">>],
      [extension |-> "docx", size |-> 1, readable |-> FALSE, text |-> <<>>],
      [extension |-> "TXT", size |-> 1, readable |-> TRUE, text |-> <<" ", "\n">>],
      [extension |-> "doc", size |-> 1, readable |-> TRUE, text |-> <<"B">>],
      [extension |-> "exe", size |-> 1, readable |-> TRUE, text |-> <<"B">>] }

\* every text and every file with the API key set, and one of each without it
Inputs ==
    { [method |-> "paste", api_key_valid |-> TRUE, file |-> NoFile, text |-> t] :
          t \in PastedTexts }
    \cup { [method |-> "upload", api_key_valid |-> TRUE, file |-> f, text |-> <<>>] :
               f \in Files }
    \cup { [method |-> "paste", api_key_valid |-> FALSE, file |-> NoFile,
            text |-> Repeat("x", MinTextLength)],
           [method |-> "upload", api_key_valid |-> FALSE,
            file |-> [extension |-> "txt", size |-> 1, readable |-> TRUE,
                      text |-> <<"B">>],
            text |-> <<>>] }

\* what the providers do during one submission: all answer, the encoding fails to
\* load, the generation provider raises, the embedding provider raises
Providers ==
    { [encoding_ok |-> e, raises |-> g, failing_batch |-> b] :
          e \in BOOLEAN, g \in BOOLEAN, b \in 0..1 }

ProviderResponse(responses, raises) ==
    CHOOSE r \in responses : r.raises = raises

\* render_sidebar, lines 132-169: the input is validated or extracted, and
\* process_document runs only on a document_text that came through
SubmitInput ==
    \E input \in Inputs :
        \E d \in {SidebarInput(input)} :
            \/ /\ ~Truthy(d.document_text)
               /\ ev' = [NoEvent EXCEPT !.op = "submit_input",
                                        !.outcome = IF d.shown THEN "rejected" ELSE "idle",
                                        !.errors = d.errors,
                                        !.history_before = chat_history,
                                        !.input = input]
               /\ UNCHANGED <<session_vars, chunker_vars, store>>
            \/ /\ Truthy(d.document_text)
               /\ \E w \in Providers :
                      /\ encoding_loaded => w.encoding_ok
                      /\ \E p \in {process_document(
                                        Session, d.document_text.val, w.encoding_ok,
                                        ProviderResponse(SummaryResponses, w.raises),
                                        ProviderResponse(InsightResponses, w.raises),
                                        ProviderResponse(KeywordResponses, w.raises),
                                        w.failing_batch)} :
                            /\ document_text' = p.state.document_text
                            /\ document_stats' = p.state.document_stats
                            /\ summary' = p.state.summary
                            /\ insights' = p.state.insights
                            /\ keywords' = p.state.keywords
                            /\ embedding_store' = p.state.embedding_store
                            /\ chat_history' = p.state.chat_history
                            /\ processed' = p.state.processed
                            /\ ev' = [NoEvent EXCEPT !.op = "submit_input",
                                                     !.outcome = p.outcome,
                                                     !.ok = p.ok,
                                                     !.batch_failed = p.batch_failed,
                                                     !.embed_calls = p.embed_calls,
                                                     !.gen_calls = p.gen_calls,
                                                     !.errors = p.errors,
                                                     !.history_before = chat_history,
                                                     !.input = input]
                      /\ encoding_loaded' = (encoding_loaded \/ w.encoding_ok)
                      /\ UNCHANGED <<chunker_vars, store>>

IngestNext == SubmitInput \/ AskQuestion

SpecIngest == SessionInit /\ [][IngestNext]_vars

---------------------------------------------------------------------------
\* One EmbeddingStore under any sequence of create_embeddings and search calls

MaxChunks == 2

MaxTopK == 4

ChunkList(d, n) == [i \in 1..n |-> <<d, ToString(i)>>]

ChunkLists ==
    {ChunkList(d, n) : d \in {"x", "y"}, n \in (0..MaxChunks) \cup {batch_size + 1}}

TopKArgs == {None} \cup {Some(k) : k \in 0..MaxTopK}

StoreInit ==
    /\ StoreIdle
    /\ SessionIdle
    /\ ChunkerIdle
    /\ ev = NoEvent

CreateEmbeddings ==
    \E text_chunks \in ChunkLists, failing_batch \in 0..2 :
        \E c \in {create_embeddings(store, text_chunks, failing_batch)} :
           /\ store' = c.store
           /\ ev' = [NoEvent EXCEPT !.op = "create_embeddings", !.ok = c.ok,
                                    !.batch_failed = c.batch_failed,
                                    !.embed_calls = c.embed_calls,
                                    !.raised = Raised(
                                        IF c.embed_calls > 0 THEN {"embedding"} ELSE {},
                                        IF failing_batch \in 1..c.embed_calls
                                        THEN {"embedding"} ELSE {}),
                                    !.errors = c.errors]
           /\ UNCHANGED <<chunker_vars, session_vars>>

Search ==
    \E query \in Questions, top_k \in TopKArgs, embed_ok \in BOOLEAN,
       \* the nearest vector is any of the index's
       r \in 0..(IF store.index.none THEN 0 ELSE Max(Len(store.index.val), 1) - 1),
       rev \in BOOLEAN :
        \E f \in {search(store, query, top_k, embed_ok, r, rev)} :
           /\ ev' = [NoEvent EXCEPT !.op = "search", !.results = f.results,
                                    !.question = query, !.top_k = top_k,
                                    !.embed_calls = f.embed_calls,
                                    !.raised = Raised(
                                        IF f.embed_calls > 0
                                        THEN {"query_embedding"} ELSE {},
                                        IF embed_ok THEN {} ELSE {"query_embedding"}),
                                    !.errors = f.errors]
           /\ UNCHANGED <<store, chunker_vars, session_vars>>

StoreNext == CreateEmbeddings \/ Search

SpecStore == StoreInit /\ [][StoreNext]_vars

---------------------------------------------------------------------------
\* OpenAIHelper.answer_question on any history

MaxMessages == 5

HistoryMessages ==
    { [role |-> "user", content |-> <<"q", "1">>],
      [role |-> "user", content |-> <<"q", "2">>],
      [role |-> "assistant", content |-> <<"a">>] }

Histories == UNION {[1..n -> HistoryMessages] : n \in 0..MaxMessages}

ContextLists ==
    { <<>>, << <<"c", "1">> >>, << <<"c", "1">>, <<"c", "2">> >>,
      << <<"c", "2">>, <<"c", "1">> >>, << <<"c", "3">>, <<"c", "1">>, <<"c", "2">> >> }

HelperInit ==
    /\ chat_history \in Histories
    /\ document_text = None
    /\ document_stats = None
    /\ summary = None
    /\ insights = None
    /\ keywords = None
    /\ embedding_store = None
    /\ processed = FALSE
    /\ encoding_loaded = TRUE
    /\ StoreIdle
    /\ ChunkerIdle
    /\ ev = NoEvent

AnswerQuestion ==
    \E question \in Questions, context_chunks \in ContextLists, resp \in GenResponses :
        \E a \in {answer_question(question, context_chunks, chat_history, resp)} :
           /\ ev' = [NoEvent EXCEPT !.op = "answer_question", !.answer = a.ret,
                                    !.question = question, !.context = context_chunks,
                                    !.response = resp,
                                    !.history_before = chat_history,
                                    !.gen_calls = a.gen_calls, !.sent = a.sent,
                                    !.raised = Raised(
                                        IF a.gen_calls > 0 THEN {"answer"} ELSE {},
                                        IF resp.raises THEN {"answer"} ELSE {}),
                                    !.errors = a.errors]
           /\ UNCHANGED <<session_vars, store, chunker_vars>>

SpecHelper == HelperInit /\ [][AnswerQuestion]_vars

---------------------------------------------------------------------------
\* DocumentProcessor.chunk_text, one loop iteration per step

\* bounds of the chunker's inputs
MaxPieces == 3

MaxChunkSize == 7

MaxOverlap == 7

MaxIters == 6

Pieces == { <<"a", "a", "a", "a">>, <<"a">>, <<".", " ">>, <<"!", " ">>, <<" ">> }

RECURSIVE Texts(_)
Texts(n) ==
    IF n = 0 THEN { <<>> }
    ELSE Texts(n - 1) \cup {t \o p : t \in Texts(n - 1), p \in Pieces}

ChunkTexts == Texts(MaxPieces)

SizeArgs == {None} \cup {Some(k) : k \in 0..MaxChunkSize}

OverlapArgs == {None} \cup {Some(k) : k \in 0..MaxOverlap}

ChunkInit ==
    /\ call \in [text : ChunkTexts, chunk_size : SizeArgs, overlap : OverlapArgs]
    /\ chunk_size = 0
    /\ overlap = 0
    /\ start = 0
    /\ chunks = <<>>
    /\ pc = "call"
    /\ iters = 0
    /\ StoreIdle
    /\ SessionIdle
    /\ ev = NoEvent

\* lines 116-123: the defaults, the single-chunk return, the loop's entry
ChunkEnter ==
    /\ pc = "call"
    /\ chunk_size' = OrDefault(call.chunk_size, CHUNK_SIZE)
    /\ overlap' = OrDefault(call.overlap, CHUNK_OVERLAP)
    /\ IF Len(call.text) <= chunk_size'
       THEN chunks' = <<call.text>> /\ pc' = "done"
       ELSE chunks' = <<>> /\ pc' = "loop"
    /\ start' = 0
    /\ UNCHANGED <<call, iters, store, session_vars, ev>>

\* lines 125-141: one iteration of the while loop
ChunkIter ==
    /\ pc = "loop"
    /\ start < Len(call.text)
    /\ iters < MaxIters
    /\ LET end == WindowEnd(call.text, start, chunk_size)
       IN /\ chunks' = chunks \o Appended(call.text, start, end)
          /\ start' = NextStart(end, overlap)
    /\ iters' = iters + 1
    /\ UNCHANGED <<call, chunk_size, overlap, pc, store, session_vars, ev>>

\* line 143: the loop's exit
ChunkReturn ==
    /\ pc = "loop"
    /\ start >= Len(call.text)
    /\ pc' = "done"
    /\ UNCHANGED <<call, chunk_size, overlap, start, chunks, iters, store, session_vars, ev>>

ChunkNext == ChunkEnter \/ ChunkIter \/ ChunkReturn

SpecChunk == ChunkInit /\ [][ChunkNext]_vars

---------------------------------------------------------------------------
\* The program as its callers use it: through the application's session, or an
\* EmbeddingStore used on its own; the two share no state

StoreOps == {"create_embeddings", "search"}

ProgramNext ==
    \/ store = NewStore /\ ev.op \notin StoreOps /\ Next
    \/ SessionIdle /\ ev.op \in StoreOps \cup {"none"} /\ StoreNext

SpecProgram == SessionInit /\ [][ProgramNext]_vars

---------------------------------------------------------------------------
\* The claims

IsPrefix(a, b) == Len(a) <= Len(b) /\ SubSeq(b, 1, Len(a)) = a

Contains(s, p) == RFind(s, p) >= 0

\* an iteration of chunk_text's loop is the step that counts one
Iterated == pc = "loop" /\ iters' = iters + 1

\* C1: build atomicity. After a create_embeddings call in which an embedding
\* batch failed, is_ready() is false, whatever the store held before the call
\* (so that search returns no chunk of the failed call or of an earlier build).
C1_BuildAtomicity ==
    (ev.op = "create_embeddings" /\ ev.batch_failed) => ~is_ready(store)

\* C2: when the index build of the latest process_document failed, the session
\* holds no queryable index (the Q&A tab reports not-ready and retrieves nothing
\* from a document processed earlier).
C2_FailedBuildLeavesNoIndex ==
    (ev.op = "process_document" /\ ev.outcome = "processed" /\ ~ev.ok)
        => StoreNotReady(embedding_store)

\* C3: for a text longer than chunk_size and 0 <= overlap < chunk_size, every
\* iteration of chunk_text's loop strictly increases the window start.
C3_StartAdvances ==
    [][(/\ Iterated
        /\ ~call.chunk_size.none
        /\ ~call.overlap.none
        /\ Len(call.text) > call.chunk_size.val
        /\ 0 <= call.overlap.val
        /\ call.overlap.val < call.chunk_size.val) => start' > start]_vars

\* C4: for a text longer than chunk_size and overlap >= chunk_size, chunk_text
\* rejects or clamps the configuration: it never runs a loop iteration in which
\* the window start fails to advance.
C4_OverlapRejectedOrClamped ==
    [][(/\ Iterated
        /\ ~call.chunk_size.none
        /\ ~call.overlap.none
        /\ call.chunk_size.val >= 1
        /\ Len(call.text) > call.chunk_size.val
        /\ call.overlap.val >= call.chunk_size.val) => start' > start]_vars

\* C5: grounding. When a question's retrieval returns no results, the generation
\* provider is not called, no answer is produced and chat_history is unchanged; a
\* generation request is only ever sent with at least one retrieved chunk in the
\* context of its final message.
C5_Grounding ==
    [][ev'.op = "ask" =>
          /\ ev'.results = <<>> =>
                /\ ev'.gen_calls = 0
                /\ ev'.sent = <<>>
                /\ ev'.answer = None
                /\ chat_history' = chat_history
          /\ ev'.gen_calls > 0 =>
                /\ ev'.results # <<>>
                /\ \A i \in 1..Len(ev'.results) :
                      /\ \E j \in 1..Len(embedding_store.val.chunks) :
                            ev'.results[i].chunk = embedding_store.val.chunks[j]
                      /\ Contains(ev'.sent[Len(ev'.sent)].content, ev'.results[i].chunk)]_vars

C5_Witness ==
    /\ ev.op = "ask"
    /\ ev.outcome = "no_results"
    /\ ev.embed_calls = 1
    /\ ev.history_before # <<>>
    /\ chat_history = ev.history_before

\* C6: not-ready guard. search() on a store that no build has completed, and the
\* Q&A tab of a session that holds no store, report the not-ready condition: no
\* results and no answer, the not-ready message (which a search that succeeds,
\* with or without results, never shows), and no embedding or generation request.
C6_NotReadyGuard ==
    /\ (ev.op = "search" /\ store.index.none) =>
          /\ ev.results = <<>>
          /\ ev.errors = <<"No embeddings available. Please process a document first.">>
          /\ ev.embed_calls = 0
          /\ ev.gen_calls = 0
    /\ (ev.op = "search" /\ ~store.index.none) =>
          ev.errors \in {<<>>, <<"Error searching embeddings">>}
    /\ (ev.op = "ask" /\ embedding_store.none) =>
          /\ ev.outcome = IF processed THEN "not_ready" ELSE "get_started"
          /\ processed =>
                ev.errors = <<"Embedding store not ready. Please reprocess the document.">>
          /\ ev.results = <<>>
          /\ ev.answer = None
          /\ ev.embed_calls = 0
          /\ ev.gen_calls = 0
          /\ chat_history = ev.history_before

C6_Witness ==
    /\ ev.op = "search"
    /\ store.index.none
    /\ store.chunks # <<>>
    /\ ev.question # <<>>

\* C7: when the generation provider fails on a question, the failure is shown,
\* the provider was called exactly once, and chat_history is as it was.
C7_GenerationFailure ==
    [][(ev'.op = "ask" /\ ev'.gen_calls > 0 /\ ev'.response.raises) =>
          /\ ev'.gen_calls = 1
          /\ ev'.answer = None
          /\ ev'.outcome = "no_answer"
          /\ ev'.errors = <<"Error answering question">>
          /\ chat_history' = chat_history]_vars

C7_Witness ==
    /\ ev.op = "ask"
    /\ ev.gen_calls = 1
    /\ ev.response.raises
    /\ ev.history_before # <<>>
    /\ chat_history = ev.history_before

\* C8: whenever the generation provider returns an answer without failing,
\* chat_history becomes the previous history followed by the user turn with the
\* question and the assistant turn with the answer.
C8_AnswerAppended ==
    [][(/\ ev'.op = "ask"
        /\ ev'.gen_calls > 0
        /\ ~ev'.response.raises
        /\ ~ev'.response.content.none) =>
          chat_history' = chat_history \o
              << [role |-> "user", content |-> ev'.question],
                 [role |-> "assistant",
                  content |-> Strip(ev'.response.content.val)] >>]_vars

\* the chunks from the i-th on, in order, each after the first behind a separator
RECURSIVE RankedContext(_, _)
RankedContext(cs, i) ==
    IF i > Len(cs) THEN <<>>
    ELSE (IF i > 1 THEN <<"\n\n---\n\n">> ELSE <<>>) \o cs[i] \o RankedContext(cs, i + 1)

\* C9: history window. For a history of any length n, answer_question sends the
\* system instruction, then the last min(4, n) history messages in their order,
\* then one user message holding the context (the chunks in rank order, joined by
\* the separator) and then the question; nothing else.
C9_HistoryWindow ==
    ev.op = "answer_question" =>
        LET n == Len(chat_history)
            k == IF n < 4 THEN n ELSE 4
        IN /\ Len(ev.sent) = k + 2
           /\ ev.sent[1] = [role |-> "system", content |-> SYSTEM_INSTRUCTION]
           /\ \A i \in 1..k : ev.sent[1 + i] = chat_history[n - k + i]
           /\ ev.sent[k + 2] =
                 [role |-> "user",
                  content |-> <<"Context from document:\n">>
                              \o RankedContext(ev.context, 1)
                              \o <<"\n\nQuestion: ">> \o ev.question]

C9_Witness ==
    /\ ev.op = "answer_question"
    /\ Len(chat_history) > 4
    /\ Len(ev.context) >= 2
    /\ Len(ev.sent) = 6

\* C10: chat_history is append-only and cleared wholesale. After every
\* process_document call that returns, every Clear All and every Clear Chat
\* History it is empty; every other step keeps the turns it had as a prefix.
C10_AppendOnlyClearedWholesale ==
    [][IF ev'.op \in {"process_document", "clear_all", "clear_chat"}
       THEN chat_history' = <<>>
       ELSE IsPrefix(chat_history, chat_history')]_vars

C10_Witness ==
    /\ ev.op = "process_document"
    /\ ev.outcome = "processed"
    /\ ev.history_before # <<>>
    /\ chat_history = <<>>

\* the requests process_document makes of the providers, in the order of its steps
ProviderSteps == <<"summary", "insights", "keywords", "embedding">>

\* C11: if a provider call fails during process_document, the run aborts: no
\* later provider step is executed, the session is not marked processed, and no
\* output of that run (summary, insights, keywords, index) is kept in the session.
C11_AbortsEntirely ==
    (ev.op = "process_document" /\ ev.raised # {}) =>
        /\ ~processed
        /\ summary = None
        /\ insights = None
        /\ keywords = None
        /\ embedding_store = None
        /\ \A i \in 1..Len(ProviderSteps) :
              ProviderSteps[i] \in ev.raised =>
                  ev.gen_calls + ev.embed_calls <= i

\* C12: the three retrieval failures are told apart. search() reports a provider
\* failure on the query's embedding, a search that found nothing, and a store
\* that is not ready in three different ways; and on the Q&A path a provider
\* failure is never shown as "no relevant content".
C12_FailuresDistinguished ==
    /\ (ev.op = "search" /\ "query_embedding" \in ev.raised) =>
          /\ ev.errors # <<>>
          /\ ev.errors # <<"No embeddings available. Please process a document first.">>
    /\ (ev.op = "search" /\ ev.embed_calls = 0) =>
          ev.errors = <<"No embeddings available. Please process a document first.">>
    /\ (ev.op = "search" /\ ev.embed_calls = 1 /\ ev.raised = {}) =>
          ev.errors = <<>>
    /\ (ev.op = "ask" /\ "query_embedding" \in ev.raised) =>
          \A i \in 1..Len(ev.errors) :
              ev.errors[i] # "Could not find relevant information in the document."


\* the arguments of the chunk_text call are given and are those of a text longer
\* than chunk_size with 0 <= overlap < chunk_size
LongTextCall ==
    /\ ~call.chunk_size.none
    /\ ~call.overlap.none
    /\ call.chunk_size.val >= 1
    /\ Len(call.text) > call.chunk_size.val
    /\ 0 <= call.overlap.val
    /\ call.overlap.val < call.chunk_size.val

\* C13: for a text no longer than chunk_size, chunk_text returns exactly one
\* chunk, the input with its leading and trailing whitespace trimmed.
C13_ShortTextTrimmed ==
    (pc = "done" /\ Len(call.text) <= chunk_size) => chunks = <<Strip(call.text)>>

\* the offsets in the window of size characters from s at which a
\* sentence-terminal marker of any type starts
MarkerOffsets(t, s, size) ==
    {i \in 0..(size - 2) :
        /\ t[s + i + 1] \in {".", "!", "?"}
        /\ t[s + i + 2] \in {" ", "\n"}}

\* where the sentence-boundary preference cuts the window: after the last marker
\* when it lies at or after half the chunk size, else at the raw offset
PreferredCut(t, s, size) ==
    LET at == MarkerOffsets(t, s, size)
    IN IF at # {} /\ \E i \in at : 2 * i >= size
       THEN s + (CHOOSE i \in at : \A j \in at : j <= i) + 2
       ELSE s + size

\* C14: sentence-boundary preference. Every window that ends before the end of
\* the text is cut right after the last sentence-terminal marker in it when that
\* marker is at or after offset chunk_size/2, and at start + chunk_size otherwise.
C14_SentenceBoundary ==
    [][(/\ Iterated
        /\ start >= 0
        /\ start + chunk_size < Len(call.text)) =>
          start' + overlap = PreferredCut(call.text, start, chunk_size)]_vars

\* C15: for a text longer than chunk_size and 0 <= overlap < chunk_size,
\* chunk_text returns at least 2 chunks, each of length at most chunk_size.
C15_AtLeastTwoChunks ==
    (pc = "done" /\ LongTextCall) =>
        /\ Len(chunks) >= 2
        /\ \A i \in 1..Len(chunks) : Len(chunks[i]) <= call.chunk_size.val

\* C16: chunk invariant. Every chunk chunk_text returns is non-empty, has no
\* leading or trailing whitespace and is a contiguous substring of the input.
C16_ChunkInvariant ==
    pc = "done" =>
        \A i \in 1..Len(chunks) :
            /\ chunks[i] # <<>>
            /\ chunks[i] = Strip(chunks[i])
            /\ Contains(call.text, chunks[i])

\* C17: coverage with overlap. For a text longer than chunk_size and
\* 0 <= overlap < chunk_size, each window after the first starts exactly overlap
\* characters before the cut of the window before it, and every non-whitespace
\* character of the text is in a returned chunk.
C17_CoverageWithOverlap ==
    [][/\ (Iterated /\ LongTextCall) =>
              start' = WindowEnd(call.text, start, chunk_size) - call.overlap.val
       /\ (pc' = "done" /\ LongTextCall) =>
              \A i \in 1..Len(call.text) :
                  call.text[i] \notin Whitespace =>
                      \E j \in 1..Len(chunks') : Contains(chunks'[j], <<call.text[i]>>)]_vars


\* C18: top-k clamp. On a ready store holding n chunks, search(query, top_k) with
\* any requested top_k >= 0 and a working provider returns at most min(top_k, n)
\* results without error, each of them one of the stored chunks.
C18_TopKClamp ==
    (/\ ev.op = "search"
     /\ is_ready(store)
     /\ ~ev.top_k.none
     /\ ev.raised = {}) =>
        /\ ev.errors = <<>>
        /\ Len(ev.results) <= ev.top_k.val
        /\ Len(ev.results) <= Len(store.chunks)
        /\ \A i \in 1..Len(ev.results) :
              \E j \in 1..Len(store.chunks) : ev.results[i].chunk = store.chunks[j]

\* C20: fail closed. Whenever the provider raises during create_embeddings,
\* search, generate_summary, extract_insights, generate_keywords or
\* answer_question, called by process_document and by the Q&A tab, the operation
\* returns its failure indicator (False, the empty list, None) and its caller goes
\* on: no exception reaches the caller's handler.
C20_FailClosed ==
    /\ (ev.op = "process_document" /\ ev.raised # {}) =>
          /\ "summary" \in ev.raised => summary = None
          /\ "insights" \in ev.raised => insights = None
          /\ "keywords" \in ev.raised => keywords = None
          /\ "embedding" \in ev.raised => (~ev.ok /\ ev.batch_failed)
          /\ ev.outcome = "processed"
          /\ ev.gen_calls = 3
          /\ ev.embed_calls >= 1
    /\ (ev.op = "ask" /\ "query_embedding" \in ev.raised) =>
          /\ ev.results = <<>>
          /\ ev.outcome = "no_results"
    /\ (ev.op = "ask" /\ "answer" \in ev.raised) =>
          /\ ev.answer = None
          /\ ev.outcome = "no_answer"

C20_Witness ==
    /\ ev.op = "process_document"
    /\ ev.raised = {"summary", "insights", "keywords", "embedding"}
    /\ summary = None
    /\ document_text # None


\* the roles of a history's turns, in order
Roles(history) == [i \in 1..Len(history) |-> history[i].role]

\* user, assistant, user, assistant, ...: an even number of turns
Alternates(roles) ==
    /\ Len(roles) % 2 = 0
    /\ \A i \in 1..Len(roles) : roles[i] = IF i % 2 = 1 THEN "user" ELSE "assistant"

\* C22: in every reachable session state chat_history has even length and its
\* roles alternate user, assistant from a user turn on; so the history window sent
\* with a question, when it is not empty, begins with a user turn and ends with an
\* assistant turn.
C22_HistoryAlternates ==
    /\ Alternates(Roles(chat_history))
    /\ (ev.op = "ask" /\ ev.gen_calls > 0) =>
          LET window == SubSeq(ev.sent, 2, Len(ev.sent) - 1)
          IN /\ Len(ev.sent) >= 2
             /\ window # <<>> =>
                   /\ window[1].role = "user"
                   /\ window[Len(window)].role = "assistant"
                   /\ Alternates(Roles(window))

C22_Witness ==
    /\ ev.op = "ask"
    /\ ev.outcome = "answered"
    /\ Len(ev.history_before) = 4
    /\ Len(ev.sent) = 6
    /\ Len(chat_history) = 6

\* C23: no redundant chunk. For a text longer than chunk_size and
\* 0 < overlap < chunk_size, every window after the first that starts further on
\* than the one before it also reaches further into the text than the one before
\* it did, so the chunk it appends does not lie inside what the preceding window
\* covered.
C23_NoRedundantChunk ==
    [][(/\ Iterated
        /\ iters >= 1
        /\ LongTextCall
        /\ call.overlap.val > 0
        /\ start' > start
        /\ Len(chunks') > Len(chunks)) =>
          Min(start' + overlap, Len(call.text)) > Min(start + overlap, Len(call.text))]_vars

\* what the claim counts as accepted by ingestion
AcceptedByIngestion(input) ==
    IF input.method = "paste"
    THEN Len(Strip(input.text)) >= MinTextLength
    ELSE /\ input.file.size <= MAX_FILE_SIZE_MB * Megabyte
         /\ Lower(input.file.extension) \in {"pdf", "docx", "txt"}
         /\ input.file.readable
         /\ Strip(input.file.text) # <<>>

\* the text the claim expects process_document to be given
IngestedText(input) ==
    IF input.method = "paste" THEN input.text ELSE Strip(input.file.text)

\* C21: input rejection precedes the core. A submission reaches process_document
\* only with text accepted by ingestion (pasted text of trimmed length at least
\* 50; a file of at most 10 MB, of a supported type, with non-blank extracted
\* text), and that text becomes document_text; a submission ingestion rejects makes
\* no provider call and leaves document_text, summary, insights, keywords,
\* embedding_store, chat_history and processed as they were.
C21_RejectionPrecedesCore ==
    [][ev'.op = "submit_input" =>
          /\ ev'.outcome \in {"processed", "error"} =>
                /\ AcceptedByIngestion(ev'.input)
                /\ document_text' = Some(IngestedText(ev'.input))
          /\ ~AcceptedByIngestion(ev'.input) =>
                /\ ev'.outcome \in {"rejected", "idle"}
                /\ ev'.gen_calls = 0
                /\ ev'.embed_calls = 0
                /\ UNCHANGED <<document_text, summary, insights, keywords,
                               embedding_store, chat_history, processed>>]_vars

\* a too-short paste was rejected in a session that held a processed document and
\* a conversation
C21_Witness ==
    /\ ev.op = "submit_input"
    /\ ev.outcome = "rejected"
    /\ ev.input.method = "paste"
    /\ Len(ev.input.text) > MinTextLength
    /\ ~AcceptedByIngestion(ev.input)
    /\ processed
    /\ chat_history # <<>>
    /\ Truthy(summary)

====
